---- MODULE Spec2Model ----
(***************************************************************************)
(* hono-effect-api: the Effect runtime of src/index.ts, the layers of      *)
(* src/services/*.ts and the service operations they provide.              *)
(*                                                                         *)
(* Strings are tuples of one-character strings (<<"a","b">> is "ab"), so   *)
(* trim(), length and parseInt() are computed and not assumed.  The JS     *)
(* values undefined and null are the one-element tuples Undefined and Null *)
(* whose element is no character.                                          *)
(***************************************************************************)
EXTENDS Integers, Sequences, FiniteSets, TLC

\* ------------------------------------------------------------------ bounds
NProcs == 2
MaxSeq == 2
MaxLayers == 3
MaxContentLen == 280
MaxQueries == 1

Procs == 1..NProcs

\* ----------------------------------------------------------- JS strings
Undefined == <<"undefined">>
Null == <<"null">>
True == <<"true">>
False == <<"false">>
NaN == -1

Str(c, n) == [i \in 1..n |-> c]

IsWs(c) == c = " "

RECURSIVE TrimStart(_)
TrimStart(s) == IF s # <<>> /\ IsWs(Head(s)) THEN TrimStart(Tail(s)) ELSE s

RECURSIVE TrimEnd(_)
TrimEnd(s) ==
    IF s # <<>> /\ IsWs(s[Len(s)]) THEN TrimEnd(SubSeq(s, 1, Len(s) - 1)) ELSE s

\* String.prototype.trim
Trim(s) == TrimEnd(TrimStart(s))

\* `!x || x.trim().length === 0` (create: a missing field is blank too)
IsBlankOrMissing(s) == s = Undefined \/ s = Null \/ s = <<>> \/ Len(Trim(s)) = 0

\* `x !== undefined && x.trim().length === 0` (update: a missing field is kept)
IsGivenBlank(s) == s # Undefined /\ Len(Trim(s)) = 0

IsDigit(c) == c \in {"0", "1", "2", "3", "4", "5", "6", "7", "8", "9"}

DigitVal(c) ==
    CASE c = "0" -> 0 [] c = "1" -> 1 [] c = "2" -> 2 [] c = "3" -> 3
      [] c = "4" -> 4 [] c = "5" -> 5 [] c = "6" -> 6 [] c = "7" -> 7
      [] c = "8" -> 8 [] c = "9" -> 9

DigitChar(d) == <<"0", "1", "2", "3", "4", "5", "6", "7", "8", "9">>[d + 1]

RECURSIVE ParseDigits(_, _, _)
ParseDigits(s, acc, seen) ==
    IF s # <<>> /\ IsDigit(Head(s))
    THEN ParseDigits(Tail(s), acc * 10 + DigitVal(Head(s)), TRUE)
    ELSE IF seen THEN acc ELSE NaN

\* parseInt(id, 10): leading whitespace is skipped, the longest digit prefix
\* is the value, whatever follows it is ignored; NaN when there is no digit.
\* (The id alphabet of the model has no sign character.)
ParseInt(s) == ParseDigits(TrimStart(s), 0, FALSE)

RECURSIVE NumToString(_)
\* Number.prototype.toString of a non-negative integer
NumToString(n) ==
    IF n < 10 THEN <<DigitChar(n)>>
    ELSE NumToString(n \div 10) \o <<DigitChar(n % 10)>>

\* ------------------------------------------------------------- the layers
Tokens == {"DatabaseService", "UserService", "PostService", "TodoService"}

\* Layer.scoped(DatabaseService, ...): no dependency, registers a finalizer
DatabaseServiceLive ==
    [name |-> "DatabaseServiceLive", provides |-> "DatabaseService",
     requires |-> <<>>, scoped |-> TRUE]

\* Layer.sync(UserService, ...): the in-memory implementation
UserServiceLiveLayer ==
    [name |-> "UserServiceLiveLayer", provides |-> "UserService",
     requires |-> <<>>, scoped |-> FALSE]

\* Layer.effect(UserService, ...): yield* DatabaseService, then new UserServiceLive()
UserServiceLive ==
    [name |-> "UserServiceLive", provides |-> "UserService",
     requires |-> <<"DatabaseService">>, scoped |-> FALSE]

\* Layer.effect(PostService, ...): yield* DatabaseService; yield* UserService
PostServiceLive ==
    [name |-> "PostServiceLive", provides |-> "PostService",
     requires |-> <<"DatabaseService", "UserService">>, scoped |-> FALSE]

\* Layer.sync(TodoService, ...): in-memory, no dependency
TodoServiceLiveLayer ==
    [name |-> "TodoServiceLiveLayer", provides |-> "TodoService",
     requires |-> <<>>, scoped |-> FALSE]

\* A layer shaped like UserServiceLive whose dependency is PostService: with
\* PostServiceLive it closes the cycle UserService -> PostService -> UserService.
UserNeedsPostLayer ==
    [name |-> "UserNeedsPostLayer", provides |-> "UserService",
     requires |-> <<"PostService">>, scoped |-> FALSE]

LayerPool ==
    {DatabaseServiceLive, UserServiceLiveLayer, UserServiceLive, PostServiceLive,
     TodoServiceLiveLayer, UserNeedsPostLayer}

LayerNames == {l.name : l \in LayerPool}
LayerDef(n) == CHOOSE l \in LayerPool : l.name = n

Range(s) == {s[i] : i \in DOMAIN s}

\* ------------------------------------------------------------------ state
VARIABLES
    composition,   \* the layer graph given to Runtime.make: [layers, cuts, keep]
    done,          \* positions of composition.layers already built
    ctxIn,         \* context the layers of the current stage are built against
    memo,          \* layers already built in this scope (Effect's MemoMap)
    instantiated,  \* token -> number of service instances created
    buildState,    \* "building" | "built" | "failed"
    buildError,    \* the token whose lookup failed, or "none"
    scope,         \* "open" | "closed": the scope of Effect.scoped
    finalizers,    \* finalizers registered in the scope (Effect.addFinalizer)
    pool,          \* "none" | "open" | "ended": the postgres client
    poolsCreated,  \* calls of createPostgresClient()
    endCalls,      \* calls of client.end()
    runtime,       \* "none" | "ready" | "crashed" (Effect.runSync threw)
    runtimeCtx,    \* token -> layer whose instance the runtime resolves it to
    users,         \* UserServiceLive.users (in-memory Map), as a set of User
    idCounter,     \* UserServiceLive.idCounter
    todos,         \* TodoServiceLive.todos, as a set of Todo
    todoCounter,   \* TodoServiceLive.idCounter
    dbUsers,       \* rows of table users
    usersSeq,      \* last value of the serial sequence of users.id
    dbPosts,       \* rows of table posts
    postsSeq,      \* last value of the serial sequence of posts.id
    prog,          \* per invocation of runEffect: the Program in flight
    result,        \* per invocation: what runEffect returned to the route
    last,          \* the invocation that completed most recently, in full
    scopes,        \* per scope that owns a client: [state, handle, queries, answer]
    clients        \* client objects made by postgres(): "none" | "open" | "ended"

buildVars ==
    <<composition, done, ctxIn, memo, instantiated, buildState, buildError,
      scope, finalizers, pool, poolsCreated, endCalls, runtime, runtimeCtx>>

storeVars ==
    <<users, idCounter, todos, todoCounter, dbUsers, usersSeq, dbPosts, postsSeq>>
progVars == <<prog, result, last>>
scopeVars == <<scopes, clients>>
vars == <<buildVars, storeVars, progVars, scopeVars>>

NoCtx == [t \in Tokens |-> "none"]

\* ---------------------------------------------------- layer compositions
\* A composition is Layer.provide(S_n, Layer.provide(S_n-1, ... S_1)) (keep =
\* FALSE) or the same chain of Layer.provideMerge (keep = TRUE); every stage
\* S_k is a Layer.merge of the layers at its positions.  `layers` lists the
\* layers stage by stage, `cuts` holds the positions after which a new stage
\* starts.
StageOf(c, i) == 1 + Cardinality({k \in c.cuts : k < i})
NumStages(c) == 1 + Cardinality(c.cuts)
StagePositions(c, k) == {i \in DOMAIN c.layers : StageOf(c, i) = k}

\* index.ts:21  Layer.merge(UserServiceLiveLayer, PostServiceLiveLayer).  The
\* layer given to Runtime.make is built inside the scope of Effect.scoped;
\* PostService.ts exports its layer as PostServiceLive.
IndexComposition ==
    [layers |-> <<"UserServiceLiveLayer", "PostServiceLive">>, cuts |-> {},
     keep |-> FALSE]

\* Runtime Management: Layer.provide(Layer.merge(UserServiceLive,
\* PostServiceLive), DatabaseServiceLive)
DocComposition ==
    [layers |-> <<"DatabaseServiceLive", "UserServiceLive", "PostServiceLive">>,
     cuts |-> {1}, keep |-> FALSE]

AllCompositions ==
    UNION {
        {[layers |-> ls, cuts |-> cs, keep |-> k] :
            ls \in [1..n -> LayerNames], cs \in SUBSET (1..(n - 1)), k \in BOOLEAN}
        : n \in 1..MaxLayers}

\* The stage being built: the first one with a position not yet built.
CurrentStage ==
    IF done = DOMAIN composition.layers THEN NumStages(composition) + 1
    ELSE StageOf(composition, CHOOSE i \in DOMAIN composition.layers \ done :
                     \A j \in DOMAIN composition.layers \ done : i <= j)

\* Context.merge over the layers of a stage, in the order they were merged:
\* a token provided twice resolves to the layer merged last.
StageOutput(c, k) ==
    [t \in Tokens |->
        LET ps == {i \in StagePositions(c, k) : LayerDef(c.layers[i]).provides = t}
        IN IF ps = {} THEN "none"
           ELSE c.layers[CHOOSE i \in ps : \A j \in ps : j <= i]]

Override(base, over) ==
    [t \in Tokens |-> IF over[t] # "none" THEN over[t] ELSE base[t]]

\* Layer.provide keeps the provided stage's output only; provideMerge merges
\* it over what was already there.
ProvideOutput(c, k, in) ==
    IF c.keep THEN Override(in, StageOutput(c, k)) ELSE StageOutput(c, k)

\* The first `yield* Token` of the layer's effect that finds no service.
FirstMissing(l, ctx) ==
    LET miss == {i \in DOMAIN l.requires : ctx[l.requires[i]] = "none"}
    IN IF miss = {} THEN "none"
       ELSE l.requires[CHOOSE i \in miss : \A j \in miss : i <= j]

BuildInit(c) ==
    /\ composition = c
    /\ done = {}
    /\ ctxIn = NoCtx
    /\ memo = {}
    /\ instantiated = [t \in Tokens |-> 0]
    /\ buildState = "building"
    /\ buildError = "none"
    /\ scope = "open"
    /\ finalizers = 0
    /\ pool = "none"
    /\ poolsCreated = 0
    /\ endCalls = 0
    /\ runtime = "none"
    /\ runtimeCtx = NoCtx

\* One layer of the current stage is built.  The layers of a merge are built
\* concurrently, so any of them may come next; each sees the context provided
\* to the stage, never the output of a sibling.
BuildLayer(i) ==
    LET l == LayerDef(composition.layers[i])
        k == CurrentStage
        missing == FirstMissing(l, ctxIn)
        fresh == l.name \notin memo
        done2 == done \cup {i}
        stageDone == StagePositions(composition, k) \subseteq done2
        out == ProvideOutput(composition, k, ctxIn)
    IN /\ buildState = "building"
       /\ i \in StagePositions(composition, k) \ done
       /\ IF fresh /\ missing # "none"
          THEN \* Service not found: the build dies
               /\ buildState' = "failed"
               /\ buildError' = missing
               /\ UNCHANGED <<done, ctxIn, memo, instantiated, finalizers, pool,
                              poolsCreated, runtimeCtx>>
          ELSE /\ done' = done2
               /\ memo' = memo \cup {l.name}
               /\ instantiated' =
                      IF fresh
                      THEN [instantiated EXCEPT ![l.provides] = @ + 1]
                      ELSE instantiated
               /\ IF fresh /\ l.scoped
                  THEN \* createPostgresClient(); Effect.addFinalizer(...)
                       /\ pool' = "open"
                       /\ poolsCreated' = poolsCreated + 1
                       /\ finalizers' = finalizers + 1
                  ELSE UNCHANGED <<pool, poolsCreated, finalizers>>
               /\ ctxIn' = IF stageDone THEN out ELSE ctxIn
               /\ IF stageDone /\ k = NumStages(composition)
                  THEN buildState' = "built" /\ runtimeCtx' = out
                  ELSE UNCHANGED <<buildState, runtimeCtx>>
               /\ UNCHANGED buildError
       /\ UNCHANGED <<composition, scope, endCalls, runtime>>
       /\ UNCHANGED <<storeVars, progVars, scopeVars>>

\* A scope that closes without running its finalizers.
ScopeCloseLeak ==
    /\ buildState \in {"built", "failed"}
    /\ scope = "open"
    /\ scope' = "closed"
    /\ runtime' = IF buildState = "built" THEN "ready" ELSE "crashed"
    /\ UNCHANGED <<composition, done, ctxIn, memo, instantiated, buildState,
                   buildError, finalizers, pool, poolsCreated, endCalls, runtimeCtx>>
    /\ UNCHANGED <<storeVars, progVars, scopeVars>>

\* A scope that runs its finalizers only when the build succeeded.
ScopeCloseOnSuccessOnly ==
    /\ buildState \in {"built", "failed"}
    /\ scope = "open"
    /\ scope' = "closed"
    /\ endCalls' = IF buildState = "built" THEN endCalls + finalizers ELSE endCalls
    /\ pool' = IF buildState = "built" /\ finalizers > 0 THEN "ended" ELSE pool
    /\ runtime' = IF buildState = "built" THEN "ready" ELSE "crashed"
    /\ UNCHANGED <<composition, done, ctxIn, memo, instantiated, buildState,
                   buildError, finalizers, poolsCreated, runtimeCtx>>
    /\ UNCHANGED <<storeVars, progVars, scopeVars>>

\* Effect.scoped: the scope is closed as soon as the wrapped effect completes,
\* with success or failure; closing runs every registered finalizer once.
\* Effect.runSync then returns the runtime, or throws the build's failure.
ScopeClose ==
    /\ buildState \in {"built", "failed"}
    /\ scope = "open"
    /\ scope' = "closed"
    /\ endCalls' = endCalls + finalizers
    /\ pool' = IF finalizers > 0 THEN "ended" ELSE pool
    /\ runtime' = IF buildState = "built" THEN "ready" ELSE "crashed"
    /\ UNCHANGED <<composition, done, ctxIn, memo, instantiated, buildState,
                   buildError, finalizers, poolsCreated, runtimeCtx>>
    /\ UNCHANGED <<storeVars, progVars, scopeVars>>

\* --------------------------------------------------------------- outcomes
\* The Exit of a Program: a value, a typed failure (Effect.fail) or a defect
\* (a thrown exception, a missing service).  `ref` is the error's field: the
\* id, the username or the message.
Void == <<"void">>
NoExit == [tag |-> "none", kind |-> "none", ref |-> <<>>, value |-> Undefined]
Success(v) == [tag |-> "Success", kind |-> "none", ref |-> <<>>, value |-> v]
Failure(k, r) == [tag |-> "Failure", kind |-> k, ref |-> r, value |-> Undefined]
Die(k, r) == [tag |-> "Die", kind |-> k, ref |-> r, value |-> Undefined]

\* `a ?? b`
Coalesce(a, b) == IF a = Undefined \/ a = Null THEN b ELSE a

\* An input object; a field that is not given is Undefined.
NoInput ==
    [username |-> Undefined, email |-> Undefined, displayName |-> Undefined,
     bio |-> Undefined, userId |-> Undefined, content |-> Undefined,
     title |-> Undefined, completed |-> Undefined]

\* -------------------------------------------- UserService, in-memory (Map)
UserMem_getById(us, id) ==
    LET m == {u \in us : u.id = id}
    IN IF m = {} THEN Failure("UserNotFoundError", id)
       ELSE Success(CHOOSE u \in m : TRUE)

UserMem_getByUsername(us, username) ==
    LET m == {u \in us : u.username = username}
    IN IF m = {} THEN Failure("UserNotFoundError", <<"username:">> \o username)
       ELSE Success(CHOOSE u \in m : TRUE)

\* The checks of create with the email checked first.
ValidateCreateUserEmailFirst(input) ==
    IF IsBlankOrMissing(input.email)
    THEN Failure("ValidationError", <<"Email is required">>)
    ELSE IF IsBlankOrMissing(input.username)
    THEN Failure("ValidationError", <<"Username is required">>)
    ELSE IF IsBlankOrMissing(input.displayName)
    THEN Failure("ValidationError", <<"Display name is required">>)
    ELSE NoExit

\* The three checks of create, in the order of the code.
ValidateCreateUser(input) ==
    IF IsBlankOrMissing(input.username)
    THEN Failure("ValidationError", <<"Username is required">>)
    ELSE IF IsBlankOrMissing(input.email)
    THEN Failure("ValidationError", <<"Email is required">>)
    ELSE IF IsBlankOrMissing(input.displayName)
    THEN Failure("ValidationError", <<"Display name is required">>)
    ELSE NoExit

\* The two checks of update.
ValidateUpdateUser(input) ==
    IF IsGivenBlank(input.email)
    THEN Failure("ValidationError", <<"Email cannot be empty">>)
    ELSE IF IsGivenBlank(input.displayName)
    THEN Failure("ValidationError", <<"Display name cannot be empty">>)
    ELSE NoExit

\* A create that numbers the new user by the size of the map.
UserMem_createBySize(us, ctr, input) ==
    LET v == ValidateCreateUser(input)
        user == [id |-> NumToString(Cardinality(us) + 1), username |-> input.username,
                 email |-> input.email, displayName |-> input.displayName,
                 bio |-> input.bio]
    IN IF v.tag # "none" THEN [users |-> us, idCounter |-> ctr, exit |-> v]
       ELSE IF \E u \in us : u.username = input.username
       THEN [users |-> us, idCounter |-> ctr,
             exit |-> Failure("UserAlreadyExistsError", input.username)]
       ELSE [users |-> us \cup {user}, idCounter |-> ctr + 1, exit |-> Success(user)]

UserMem_create(us, ctr, input) ==
    LET v == ValidateCreateUser(input)
        user == [id |-> NumToString(ctr), username |-> input.username,
                 email |-> input.email, displayName |-> input.displayName,
                 bio |-> input.bio]
    IN IF v.tag # "none" THEN [users |-> us, idCounter |-> ctr, exit |-> v]
       ELSE IF \E u \in us : u.username = input.username
       THEN [users |-> us, idCounter |-> ctr,
             exit |-> Failure("UserAlreadyExistsError", input.username)]
       ELSE [users |-> us \cup {user}, idCounter |-> ctr + 1, exit |-> Success(user)]

\* An update that stores the merged user before it validates the input.
UserMem_updateStoreFirst(us, id, input) ==
    LET g == UserMem_getById(us, id)
        v == ValidateUpdateUser(input)
        user == g.value
        updatedUser ==
            [user EXCEPT !.email = Coalesce(input.email, user.email),
                         !.displayName = Coalesce(input.displayName, user.displayName),
                         !.bio = IF input.bio # Undefined THEN input.bio ELSE user.bio]
    IN IF g.tag # "Success" THEN [users |-> us, exit |-> g]
       ELSE IF v.tag # "none" THEN [users |-> (us \ {user}) \cup {updatedUser}, exit |-> v]
       ELSE [users |-> (us \ {user}) \cup {updatedUser}, exit |-> Success(updatedUser)]

\* An update that builds the user from the input alone: a field the input
\* omits is stored as undefined.
UserMem_updateFromInput(us, id, input) ==
    LET g == UserMem_getById(us, id)
        v == ValidateUpdateUser(input)
        user == g.value
        updatedUser ==
            [user EXCEPT !.email = input.email,
                         !.displayName = input.displayName,
                         !.bio = input.bio]
    IN IF g.tag # "Success" THEN [users |-> us, exit |-> g]
       ELSE IF v.tag # "none" THEN [users |-> us, exit |-> v]
       ELSE [users |-> (us \ {user}) \cup {updatedUser}, exit |-> Success(updatedUser)]

UserMem_update(us, id, input) ==
    LET g == UserMem_getById(us, id)
        v == ValidateUpdateUser(input)
        user == g.value
        updatedUser ==
            [user EXCEPT !.email = Coalesce(input.email, user.email),
                         !.displayName = Coalesce(input.displayName, user.displayName),
                         !.bio = IF input.bio # Undefined THEN input.bio ELSE user.bio]
    IN IF g.tag # "Success" THEN [users |-> us, exit |-> g]
       ELSE IF v.tag # "none" THEN [users |-> us, exit |-> v]
       ELSE [users |-> (us \ {user}) \cup {updatedUser}, exit |-> Success(updatedUser)]

UserMem_delete(us, id) ==
    LET g == UserMem_getById(us, id)
    IN IF g.tag # "Success" THEN [users |-> us, exit |-> g]
       ELSE [users |-> us \ {g.value}, exit |-> Success(Void)]

\* ------------------------------------------------- TodoService, in-memory
TodoMem_getById(ts, id) ==
    LET m == {t \in ts : t.id = id}
    IN IF m = {} THEN Failure("TodoNotFoundError", id)
       ELSE Success(CHOOSE t \in m : TRUE)

TodoMem_create(ts, ctr, input) ==
    LET todo == [id |-> NumToString(ctr), title |-> input.title, completed |-> False]
    IN IF IsBlankOrMissing(input.title)
       THEN [todos |-> ts, idCounter |-> ctr,
             exit |-> Failure("ValidationError", <<"Title is required">>)]
       ELSE [todos |-> ts \cup {todo}, idCounter |-> ctr + 1, exit |-> Success(todo)]

TodoMem_update(ts, id, input) ==
    LET g == TodoMem_getById(ts, id)
        todo == g.value
        updatedTodo ==
            [todo EXCEPT !.title = Coalesce(input.title, todo.title),
                         !.completed = IF input.completed = Undefined
                                       THEN todo.completed ELSE input.completed]
    IN IF g.tag # "Success" THEN [todos |-> ts, exit |-> g]
       ELSE IF IsGivenBlank(input.title)
       THEN [todos |-> ts, exit |-> Failure("ValidationError", <<"Title cannot be empty">>)]
       ELSE [todos |-> (ts \ {todo}) \cup {updatedTodo}, exit |-> Success(updatedTodo)]

TodoMem_delete(ts, id) ==
    LET g == TodoMem_getById(ts, id)
    IN IF g.tag # "Success" THEN [todos |-> ts, exit |-> g]
       ELSE [todos |-> ts \ {g.value}, exit |-> Success(Void)]

\* ------------------------------------------------------ the backing store
\* The database as the queries see it.  A serial column takes the next value
\* of its sequence when the INSERT evaluates its defaults, before the
\* constraints are checked: a rejected INSERT has consumed the value.
Db(us, useq, ps, pseq) ==
    [dbUsers |-> us, usersSeq |-> useq, dbPosts |-> ps, postsSeq |-> pseq]

\* What a step of a Program yields: an Exit that ends the Program, or the
\* next storage call to issue.
Fin(db, exit) == [exit |-> exit, next |-> "done", db |-> db, rejected |-> "none"]
Cont(db, next) == [exit |-> NoExit, next |-> next, db |-> db, rejected |-> "none"]
\* The promise of the query rejects with `cause`.
Rejected(db, cause) == [exit |-> NoExit, next |-> "done", db |-> db, rejected |-> cause]

\* catch: (error) => new DatabaseError({ message: String(error) })
DatabaseError(cause) == Failure("DatabaseError", <<cause>>)

\* The mapping of a row to the domain type, as every method ends.
ToUser(row) ==
    [id |-> NumToString(row.id), username |-> row.username, email |-> row.email,
     displayName |-> row.displayName, bio |-> Coalesce(row.bio, Undefined)]

ToPost(row) ==
    [id |-> NumToString(row.id), userId |-> NumToString(row.userId),
     content |-> row.content]

\* db.select().from(users).where(eq(users.id, numId)).limit(1)
SelectUserById(db, numId) == {r \in db.dbUsers : r.id = numId}
SelectUserByUsername(db, username) == {r \in db.dbUsers : r.username = username}
SelectPostById(db, numId) == {r \in db.dbPosts : r.id = numId}

\* -------------------------------------- UserService, database-backed
\* `yield* this.getById(id)` inside Effect.gen(function* () { ... }): the
\* generator is called without a receiver (only Effect.gen(this, function* ...)
\* binds one), so `this` is undefined and the property read throws.  update
\* and delete of the database-backed services end there, with a defect.
ThisIsUndefined == Die("TypeError", <<"this.getById">>)

\* The synchronous start of a method, up to its first storage call.
UserDb_Begin(op, id, input) ==
    CASE op = "getById" ->
            IF ParseInt(id) = NaN THEN Failure("UserNotFoundError", id) ELSE NoExit
      [] op = "create" -> ValidateCreateUser(input)
      [] op = "update" ->
            IF ParseInt(id) = NaN THEN Failure("UserNotFoundError", id)
            ELSE IF ValidateUpdateUser(input).tag # "none" THEN ValidateUpdateUser(input)
            ELSE ThisIsUndefined
      [] op = "delete" ->
            IF ParseInt(id) = NaN THEN Failure("UserNotFoundError", id)
            ELSE ThisIsUndefined
      [] OTHER -> NoExit

UserDb_FirstCall(op) ==
    IF op \in {"getAll", "getById", "getByUsername"} THEN "read" ELSE "check"

\* getById after its NaN check: the select and the mapping of its result.
UserDb_getById(db, id) ==
    LET m == SelectUserById(db, ParseInt(id))
    IN IF m = {} THEN Failure("UserNotFoundError", id)
       ELSE Success(ToUser(CHOOSE r \in m : TRUE))

\* An insert whose returned row carries the value the sequence had before
\* the insert.
UserDb_insertStaleId(db, input) ==
    LET row == [id |-> db.usersSeq + 1, username |-> input.username,
                email |-> input.email, displayName |-> input.displayName,
                bio |-> Coalesce(input.bio, Null)]
        db1 == [db EXCEPT !.usersSeq = @ + 1]
    IN IF SelectUserByUsername(db, input.username) # {}
       THEN Rejected(db1, "unique_violation")
       ELSE Fin([db1 EXCEPT !.dbUsers = @ \cup {row}],
                Success(ToUser([row EXCEPT !.id = db.usersSeq])))

\* .insert(users).values({...}).returning()
UserDb_insert(db, input) ==
    LET row == [id |-> db.usersSeq + 1, username |-> input.username,
                email |-> input.email, displayName |-> input.displayName,
                bio |-> Coalesce(input.bio, Null)]
        db1 == [db EXCEPT !.usersSeq = @ + 1]
    IN IF SelectUserByUsername(db, input.username) # {}
       THEN Rejected(db1, "unique_violation")
       ELSE Fin([db1 EXCEPT !.dbUsers = @ \cup {row}], Success(ToUser(row)))

\* One storage call of a method that the database answered.
UserDb_Query(op, pc, id, input, db) ==
    CASE op = "getAll" -> Fin(db, Success({ToUser(r) : r \in db.dbUsers}))
      [] op = "getById" -> Fin(db, UserDb_getById(db, id))
      [] op = "getByUsername" ->
            LET m == SelectUserByUsername(db, input.username)
            IN IF m = {}
               THEN Fin(db, Failure("UserNotFoundError",
                                    <<"username:">> \o input.username))
               ELSE Fin(db, Success(ToUser(CHOOSE r \in m : TRUE)))
      [] op = "create" /\ pc = "check" ->
            IF SelectUserByUsername(db, input.username) # {}
            THEN Fin(db, Failure("UserAlreadyExistsError", input.username))
            ELSE Cont(db, "write")
      [] op = "create" /\ pc = "write" -> UserDb_insert(db, input)

\* ------------------------------------------------------------ PostService
ValidateCreatePost(input) ==
    IF IsBlankOrMissing(input.content)
    THEN Failure("ValidationError", <<"Post content is required">>)
    ELSE IF Len(input.content) > MaxContentLen
    THEN Failure("ValidationError", <<"Post content must be 280 characters or less">>)
    ELSE NoExit

ValidateUpdatePost(input) ==
    IF input.content = Undefined THEN NoExit
    ELSE IF Len(Trim(input.content)) = 0
    THEN Failure("ValidationError", <<"Post content cannot be empty">>)
    ELSE IF Len(input.content) > MaxContentLen
    THEN Failure("ValidationError", <<"Post content must be 280 characters or less">>)
    ELSE NoExit

\* The synchronous start of a method.  create validates, then looks the
\* author up through whichever UserService the context holds: the in-memory
\* one answers at once (memUsers), the database-backed one needs a query.
Post_Begin(op, id, input, userImpl, memUsers) ==
    CASE op = "getById" ->
            IF ParseInt(id) = NaN THEN Failure("PostNotFoundError", id) ELSE NoExit
      [] op = "getByUserId" ->
            IF ParseInt(input.userId) = NaN THEN Success({}) ELSE NoExit
      [] op = "update" ->
            IF ParseInt(id) = NaN THEN Failure("PostNotFoundError", id)
            ELSE IF ValidateUpdatePost(input).tag # "none" THEN ValidateUpdatePost(input)
            ELSE ThisIsUndefined
      [] op = "delete" ->
            IF ParseInt(id) = NaN THEN Failure("PostNotFoundError", id)
            ELSE ThisIsUndefined
      [] op = "create" ->
            LET v == ValidateCreatePost(input)
                g == UserMem_getById(memUsers, input.userId)
            IN IF v.tag # "none" THEN v
               ELSE IF userImpl = "none" THEN Die("ServiceNotFound", <<"UserService">>)
               ELSE IF userImpl = "UserServiceLiveLayer"
               THEN (IF g.tag # "Success" THEN g ELSE NoExit)
               ELSE IF ParseInt(input.userId) = NaN
               THEN Failure("UserNotFoundError", input.userId)
               ELSE NoExit
      [] OTHER -> NoExit

Post_FirstCall(op, userImpl) ==
    IF op \in {"getAll", "getById", "getByUserId"} THEN "read"
    ELSE IF op = "create" /\ userImpl = "UserServiceLiveLayer" THEN "write"
    ELSE "check"

\* A lookup of a post that reports a missing row with the error of the
\* user lookup.
Post_getByIdAsUser(db, id) ==
    LET m == SelectPostById(db, ParseInt(id))
    IN IF m = {} THEN Failure("UserNotFoundError", id)
       ELSE Success(ToPost(CHOOSE r \in m : TRUE))

Post_getById(db, id) ==
    LET m == SelectPostById(db, ParseInt(id))
    IN IF m = {} THEN Failure("PostNotFoundError", id)
       ELSE Success(ToPost(CHOOSE r \in m : TRUE))

\* .insert(posts).values({ userId: numUserId, content }).returning(); user_id
\* references users.id.
Post_insert(db, input) ==
    LET numUserId == ParseInt(input.userId)
        row == [id |-> db.postsSeq + 1, userId |-> numUserId, content |-> input.content]
        db1 == [db EXCEPT !.postsSeq = @ + 1]
    IN IF SelectUserById(db, numUserId) = {}
       THEN Rejected(db1, "foreign_key_violation")
       ELSE Fin([db1 EXCEPT !.dbPosts = @ \cup {row}], Success(ToPost(row)))

\* The step after the author lookup of create.
AfterAuthorLookup(db, g) == IF g.tag # "Success" THEN Fin(db, g) ELSE Cont(db, "write")

Post_Query(op, pc, id, input, db) ==
    CASE op = "getAll" -> Fin(db, Success({ToPost(r) : r \in db.dbPosts}))
      [] op = "getById" -> Fin(db, Post_getById(db, id))
      [] op = "getByUserId" ->
            Fin(db, Success({ToPost(r) : r \in
                        {q \in db.dbPosts : q.userId = ParseInt(input.userId)}}))
      [] op = "create" /\ pc = "check" ->
            AfterAuthorLookup(db, UserDb_getById(db, input.userId))
      [] op = "create" /\ pc = "write" -> Post_insert(db, input)

\* ------------------------------------------------------------ the inputs
S(c) == <<c>>
IdInputs == {<<"1">>, <<"2">>, <<"1", "a">>, <<"a">>}

UserInput(u, e, d) == [NoInput EXCEPT !.username = u, !.email = e, !.displayName = d]

CreateUserInputs ==
    {UserInput(S("a"), S("e"), S("d")), UserInput(S("b"), S("e"), S("d")),
     UserInput(S(" "), S("e"), S("d")), UserInput(Undefined, S("e"), S("d")),
     UserInput(S("a"), <<>>, S("d")), UserInput(S("a"), S("e"), S(" ")),
     UserInput(<<>>, <<>>, S("d")), UserInput(S("a"), S(" "), Undefined)}

UpdateUserInputs ==
    {NoInput, [NoInput EXCEPT !.email = S("f")], [NoInput EXCEPT !.email = S(" ")],
     [NoInput EXCEPT !.displayName = <<>>]}

UserCalls ==
    {[op |-> "getAll", id |-> <<>>, input |-> NoInput]}
    \cup {[op |-> o, id |-> i, input |-> NoInput] : o \in {"getById", "delete"}, i \in IdInputs}
    \cup {[op |-> "getByUsername", id |-> <<>>, input |-> [NoInput EXCEPT !.username = S(u)]] :
            u \in {"a", "b"}}
    \cup {[op |-> "create", id |-> <<>>, input |-> x] : x \in CreateUserInputs}
    \cup {[op |-> "update", id |-> i, input |-> x] : i \in IdInputs, x \in UpdateUserInputs}

PostInput(u, c) == [NoInput EXCEPT !.userId = u, !.content = c]

CreatePostInputs ==
    {PostInput(S("1"), S("x")), PostInput(S("1"), <<>>), PostInput(S("1"), Undefined),
     PostInput(S("1"), Str("x", MaxContentLen)),
     PostInput(S("1"), Str("x", MaxContentLen + 1)),
     PostInput(S("2"), S("x")), PostInput(S("a"), S("x")),
     PostInput(<<"1", "a">>, S("x"))}

UpdatePostCalls ==
    {[op |-> "update", id |-> c[1], input |-> [NoInput EXCEPT !.content = c[2]]] :
        c \in {<<S("1"), Undefined>>, <<S("1"), S(" ")>>, <<S("1"), S("y")>>,
               <<S("1"), Str("x", MaxContentLen)>>,
               <<S("1"), Str("x", MaxContentLen + 1)>>, <<S("2"), S("y")>>,
               <<S("a"), S("y")>>, <<S("a"), S(" ")>>, <<<<"1", "a">>, S("y")>>}}

PostCalls ==
    {[op |-> "getAll", id |-> <<>>, input |-> NoInput]}
    \cup {[op |-> o, id |-> i, input |-> NoInput] : o \in {"getById", "delete"}, i \in IdInputs}
    \cup {[op |-> "getByUserId", id |-> <<>>, input |-> [NoInput EXCEPT !.userId = i]] :
            i \in IdInputs}
    \cup {[op |-> "create", id |-> <<>>, input |-> x] : x \in CreatePostInputs}
    \cup UpdatePostCalls

TodoCalls ==
    {[op |-> "getAll", id |-> <<>>, input |-> NoInput]}
    \cup {[op |-> o, id |-> i, input |-> NoInput] :
            o \in {"getById", "delete"}, i \in {S("1"), S("2")}}
    \cup {[op |-> "create", id |-> <<>>, input |-> [NoInput EXCEPT !.title = t]] :
            t \in {S("t"), S(" "), Undefined}}
    \cup {[op |-> "update", id |-> i, input |-> x] :
            i \in {S("1"), S("2")},
            x \in {NoInput, [NoInput EXCEPT !.title = <<>>],
                   [NoInput EXCEPT !.title = S("u")],
                   [NoInput EXCEPT !.completed = True]}}

\* ------------------------------------------------------------ runEffect
\* keyFree, wrote and seqMoved are kept for the properties: whether the
\* username a create asks for was free when the Program started, whether the
\* Program changed stored entities or an in-memory counter, and whether it
\* advanced a sequence of the database.
Idle ==
    [pc |-> "idle", svc |-> "none", op |-> "none", id |-> <<>>, input |-> NoInput,
     keyFree |-> FALSE, trace |-> <<>>, wrote |-> FALSE, seqMoved |-> FALSE]

\* What a step of a Program did: the step, the state of the client when it
\* ran, the rejection of its query if any, and the failure it produced.
Step(pc, client, rejected, exit) ==
    [step |-> pc, pool |-> client, rejected |-> rejected,
     failed |-> exit.tag \notin {"none", "Success"}, kind |-> exit.kind, ref |-> exit.ref]

NoResult == [success |-> "none", kind |-> "none", ref |-> <<>>]

\* Runtime.runPromiseEither(runtime)(effect): Right becomes { success: true,
\* data }, Left becomes { success: false, error }; a defect rejects the
\* promise, so runEffect throws into the route.
runEffect(exit) ==
    CASE exit.tag = "Success" -> [success |-> "true", kind |-> "none", ref |-> <<>>]
      [] exit.tag = "Failure" -> [success |-> "false", kind |-> exit.kind, ref |-> exit.ref]
      [] OTHER -> [success |-> "throws", kind |-> exit.kind, ref |-> exit.ref]

NoLast ==
    [proc |-> 0, svc |-> "none", op |-> "none", id |-> <<>>, input |-> NoInput,
     exit |-> NoExit, returned |-> NoResult, trace |-> <<>>, wrote |-> FALSE,
     seqMoved |-> FALSE]

\* The Program of invocation p ends with `exit`.
Complete(p, pr, exit) ==
    /\ prog' = [prog EXCEPT ![p] = [pr EXCEPT !.pc = "done", !.trace = <<>>,
                                               !.wrote = FALSE, !.seqMoved = FALSE]]
    /\ result' = [result EXCEPT ![p] = runEffect(exit)]
    /\ last' = [proc |-> p, svc |-> pr.svc, op |-> pr.op, id |-> pr.id,
                input |-> pr.input, exit |-> exit, returned |-> runEffect(exit),
                trace |-> pr.trace, wrote |-> pr.wrote, seqMoved |-> pr.seqMoved]

\* A sequencing that goes on to the write after a failed check.
SequencePastFailure(p, pr, step) ==
    IF step.exit.tag = "Failure" /\ pr.pc = "check"
    THEN /\ prog' = [prog EXCEPT ![p] = [pr EXCEPT !.pc = "write"]]
         /\ UNCHANGED <<result, last>>
    ELSE IF step.exit.tag # "none"
    THEN Complete(p, pr, step.exit)
    ELSE /\ prog' = [prog EXCEPT ![p] = [pr EXCEPT !.pc = step.next]]
         /\ UNCHANGED <<result, last>>

\* Effect.gen: the Program goes on to its next step unless the step failed.
Sequence(p, pr, step) ==
    IF step.exit.tag # "none"
    THEN Complete(p, pr, step.exit)
    ELSE /\ prog' = [prog EXCEPT ![p] = [pr EXCEPT !.pc = step.next]]
         /\ UNCHANGED <<result, last>>

CanRun(p, token, layer) ==
    /\ runtime = "ready"
    /\ prog[p].pc = "idle"
    /\ runtimeCtx[token] = layer

Called(svc, call, stored) ==
    [Idle EXCEPT !.pc = "run", !.svc = svc, !.op = call.op, !.id = call.id,
                 !.input = call.input,
                 !.keyFree = (call.op = "create"
                              /\ \A u \in stored : u.username # call.input.username)]

\* A create that acts on a check made before the writes of the other
\* invocations: the username is looked up in a map read when the runtime
\* was built.
RunUserMemStaleCheck(p, call) ==
    LET c == UserMem_create({}, idCounter, call.input)
        u == UserMem_update(users, call.id, call.input)
        d == UserMem_delete(users, call.id)
        users1 == CASE call.op = "create" -> users \cup c.users
                    [] call.op = "update" -> u.users
                    [] call.op = "delete" -> d.users [] OTHER -> users
        exit == CASE call.op = "create" -> c.exit [] call.op = "update" -> u.exit
                  [] call.op = "delete" -> d.exit
                  [] call.op = "getById" -> UserMem_getById(users, call.id)
                  [] call.op = "getByUsername" ->
                        UserMem_getByUsername(users, call.input.username)
                  [] OTHER -> Success(users)
        pr == [Called("user", call, users) EXCEPT
                 !.trace = <<Step("mem", pool, "none", exit)>>,
                 !.wrote = (users1 # users \/ (call.op = "create" /\ c.idCounter # idCounter))]
    IN /\ CanRun(p, "UserService", "UserServiceLiveLayer")
       /\ call.op = "create" => idCounter <= MaxSeq
       /\ users' = users1
       /\ idCounter' = IF call.op = "create" THEN c.idCounter ELSE idCounter
       /\ Complete(p, pr, exit)
       /\ UNCHANGED <<scopeVars, buildVars, todos, todoCounter, dbUsers, usersSeq, dbPosts, postsSeq>>

\* A route runs a Program on the in-memory UserService: no step suspends, so
\* the method runs to its end before any other fiber is scheduled.
RunUserMem(p, call) ==
    LET c == UserMem_create(users, idCounter, call.input)
        u == UserMem_update(users, call.id, call.input)
        d == UserMem_delete(users, call.id)
        users1 == CASE call.op = "create" -> c.users [] call.op = "update" -> u.users
                    [] call.op = "delete" -> d.users [] OTHER -> users
        exit == CASE call.op = "create" -> c.exit [] call.op = "update" -> u.exit
                  [] call.op = "delete" -> d.exit
                  [] call.op = "getById" -> UserMem_getById(users, call.id)
                  [] call.op = "getByUsername" ->
                        UserMem_getByUsername(users, call.input.username)
                  [] OTHER -> Success(users)
        pr == [Called("user", call, users) EXCEPT
                 !.trace = <<Step("mem", pool, "none", exit)>>,
                 !.wrote = (users1 # users \/ (call.op = "create" /\ c.idCounter # idCounter))]
    IN /\ CanRun(p, "UserService", "UserServiceLiveLayer")
       /\ call.op = "create" => idCounter <= MaxSeq
       /\ users' = users1
       /\ idCounter' = IF call.op = "create" THEN c.idCounter ELSE idCounter
       /\ Complete(p, pr, exit)
       /\ UNCHANGED <<scopeVars, buildVars, todos, todoCounter, dbUsers, usersSeq, dbPosts, postsSeq>>

RunTodo(p, call) ==
    LET c == TodoMem_create(todos, todoCounter, call.input)
        u == TodoMem_update(todos, call.id, call.input)
        d == TodoMem_delete(todos, call.id)
        todos1 == CASE call.op = "create" -> c.todos [] call.op = "update" -> u.todos
                    [] call.op = "delete" -> d.todos [] OTHER -> todos
        exit == CASE call.op = "create" -> c.exit [] call.op = "update" -> u.exit
                  [] call.op = "delete" -> d.exit
                  [] call.op = "getById" -> TodoMem_getById(todos, call.id)
                  [] OTHER -> Success(todos)
        pr == [Called("todo", call, {}) EXCEPT
                 !.trace = <<Step("mem", pool, "none", exit)>>,
                 !.wrote = (todos1 # todos \/ (call.op = "create" /\ c.idCounter # todoCounter))]
    IN /\ CanRun(p, "TodoService", "TodoServiceLiveLayer")
       /\ call.op = "create" => todoCounter <= MaxSeq
       /\ todos' = todos1
       /\ todoCounter' = IF call.op = "create" THEN c.idCounter ELSE todoCounter
       /\ Complete(p, pr, exit)
       /\ UNCHANGED <<scopeVars, buildVars, users, idCounter, dbUsers, usersSeq, dbPosts, postsSeq>>

\* Programs in flight that will take a value of the sequence of `svc`.
Inserting(svc) ==
    Cardinality({q \in Procs : prog[q].svc = svc /\ prog[q].op = "create"
                                /\ prog[q].pc \in {"check", "write"}})

\* `const { db } = yield* DatabaseService`, the first line of every method of
\* the database-backed services: a defect when the context has no such service.
LookupDatabase(begin) ==
    IF runtimeCtx["DatabaseService"] = "none"
    THEN Die("ServiceNotFound", <<"DatabaseService">>)
    ELSE begin

\* An acquisition that is not shared: the operation calls
\* createPostgresClient() for itself instead of taking the service of the
\* runtime's context.
RunUserDbOwnClient(p, call) ==
    LET begin == LookupDatabase(UserDb_Begin(call.op, call.id, call.input))
        pr == [Called("user", call, dbUsers) EXCEPT
                 !.trace = <<Step("begin", pool, "none", begin)>>]
    IN /\ CanRun(p, "UserService", "UserServiceLive")
       /\ call.op = "create" => usersSeq + Inserting("user") < MaxSeq
       /\ Sequence(p, pr, [exit |-> begin, next |-> UserDb_FirstCall(call.op)])
       /\ poolsCreated' = poolsCreated + 1
       /\ UNCHANGED <<composition, done, ctxIn, memo, instantiated, buildState,
                      buildError, scope, finalizers, pool, endCalls, runtime,
                      runtimeCtx>>
       /\ UNCHANGED <<storeVars, scopeVars>>

\* A route runs a Program on the database-backed UserService, up to its
\* first storage call.
RunUserDb(p, call) ==
    LET begin == LookupDatabase(UserDb_Begin(call.op, call.id, call.input))
        pr == [Called("user", call, dbUsers) EXCEPT
                 !.trace = <<Step("begin", pool, "none", begin)>>]
    IN /\ CanRun(p, "UserService", "UserServiceLive")
       /\ call.op = "create" => usersSeq + Inserting("user") < MaxSeq
       /\ Sequence(p, pr, [exit |-> begin, next |-> UserDb_FirstCall(call.op)])
       /\ UNCHANGED <<buildVars, storeVars, scopeVars>>

RunPost(p, call) ==
    LET begin == LookupDatabase(Post_Begin(call.op, call.id, call.input,
                                           runtimeCtx["UserService"], users))
        pr == [Called("post", call, {}) EXCEPT
                 !.trace = <<Step("begin", pool, "none", begin)>>]
    IN /\ CanRun(p, "PostService", "PostServiceLive")
       /\ call.op = "create" => postsSeq + Inserting("post") < MaxSeq
       /\ Sequence(p, pr, [exit |-> begin,
                           next |-> Post_FirstCall(call.op, runtimeCtx["UserService"])])
       /\ UNCHANGED <<buildVars, storeVars, scopeVars>>

\* Effect.tryPromise({ try: () => db...., catch: ... }): the storage call the
\* Program waits on.  A client that was ended rejects every query; a live one
\* answers, or fails when the database cannot be reached (reached = FALSE).
\* Either rejection, and the rejection of a query the database refused, goes
\* through `catch`.
\* A catch that rethrows: the rejection becomes a defect.
CatchRethrow(db, cause) == Fin(db, Die("Error", <<cause>>))

Catch(db, cause) == Fin(db, DatabaseError(cause))

TryPromise(answered, db, query) ==
    IF ~answered THEN Catch(db, "connection")
    ELSE IF query.rejected # "none" THEN Catch(query.db, query.rejected)
    ELSE query

StorageCall(p, reached) ==
    LET pr == prog[p]
        db == Db(dbUsers, usersSeq, dbPosts, postsSeq)
        answered == pool = "open" /\ reached
        query == IF pr.svc = "user"
                 THEN UserDb_Query(pr.op, pr.pc, pr.id, pr.input, db)
                 ELSE Post_Query(pr.op, pr.pc, pr.id, pr.input, db)
        step == TryPromise(answered, db, query)
        pr1 == [pr EXCEPT
                  !.trace = Append(@, Step(pr.pc, pool,
                                           IF answered THEN query.rejected ELSE "connection",
                                           step.exit)),
                  !.wrote = @ \/ step.db.dbUsers # dbUsers \/ step.db.dbPosts # dbPosts,
                  !.seqMoved = @ \/ step.db.usersSeq # usersSeq
                                 \/ step.db.postsSeq # postsSeq]
    IN /\ runtime = "ready"
       /\ pr.pc \in {"read", "check", "write"}
       /\ dbUsers' = step.db.dbUsers
       /\ usersSeq' = step.db.usersSeq
       /\ dbPosts' = step.db.dbPosts
       /\ postsSeq' = step.db.postsSeq
       /\ Sequence(p, pr1, step)
       /\ UNCHANGED <<scopeVars, buildVars, users, idCounter, todos, todoCounter>>

\* The error kinds in the signature of each operation: the E of its
\* Effect.Effect<A, E> in the service's tag.
DeclaredErrors(svc, op) ==
    CASE svc = "user" /\ op = "getAll" -> {"DatabaseError"}
      [] svc = "user" /\ op \in {"getById", "getByUsername", "delete"} ->
            {"UserNotFoundError", "DatabaseError"}
      [] svc = "user" /\ op = "create" ->
            {"ValidationError", "UserAlreadyExistsError", "DatabaseError"}
      [] svc = "user" /\ op = "update" ->
            {"UserNotFoundError", "ValidationError", "DatabaseError"}
      [] svc = "post" /\ op \in {"getAll", "getByUserId"} -> {"DatabaseError"}
      [] svc = "post" /\ op \in {"getById", "delete"} ->
            {"PostNotFoundError", "DatabaseError"}
      [] svc = "post" /\ op = "create" ->
            {"ValidationError", "UserNotFoundError", "DatabaseError"}
      [] svc = "post" /\ op = "update" ->
            {"PostNotFoundError", "ValidationError", "DatabaseError"}
      [] OTHER -> {}

\* ---------------------------------------------------------------- routes
\* The routes with PUT /users/:id lacking its ValidationError branch.
RouteStatusPutWithout400(svc, op, r) ==
    LET ok == r.success = "true"
        is(k) == r.kind = k
    IN CASE svc = "user" /\ op = "create" ->
              IF ok THEN 201 ELSE IF is("ValidationError") THEN 400
              ELSE IF is("UserAlreadyExistsError") THEN 409 ELSE 500
         [] svc = "user" /\ op \in {"getById", "getByUsername", "update", "delete"} ->
              IF ok THEN 200 ELSE IF is("UserNotFoundError") THEN 404 ELSE 500
         [] svc = "post" /\ op \in {"getById", "delete"} ->
              IF ok THEN 200 ELSE IF is("PostNotFoundError") THEN 404 ELSE 500
         [] svc = "post" /\ op = "create" ->
              IF ok THEN 201 ELSE IF is("ValidationError") THEN 400
              ELSE IF is("UserNotFoundError") THEN 404 ELSE 500
         [] svc = "post" /\ op = "update" ->
              IF ok THEN 200 ELSE IF is("PostNotFoundError") THEN 404
              ELSE IF is("ValidationError") THEN 400 ELSE 500
         [] OTHER -> IF ok THEN 200 ELSE 500

\* The status a route answers with, from what runEffect returned to it.  Each
\* route tests result.error with instanceof for the kinds it knows, in the
\* order written, and answers 500 for the rest.
RouteStatus(svc, op, r) ==
    LET ok == r.success = "true"
        is(k) == r.kind = k
    IN CASE svc = "user" /\ op = "getAll" -> IF ok THEN 200 ELSE 500
         [] svc = "user" /\ op \in {"getById", "getByUsername"} ->
              IF ok THEN 200 ELSE IF is("UserNotFoundError") THEN 404 ELSE 500
         [] svc = "user" /\ op = "create" ->
              IF ok THEN 201 ELSE IF is("ValidationError") THEN 400
              ELSE IF is("UserAlreadyExistsError") THEN 409 ELSE 500
         [] svc = "user" /\ op = "update" ->
              IF ok THEN 200 ELSE IF is("UserNotFoundError") THEN 404
              ELSE IF is("ValidationError") THEN 400 ELSE 500
         [] svc = "user" /\ op = "delete" ->
              IF ok THEN 200 ELSE IF is("UserNotFoundError") THEN 404 ELSE 500
         [] svc = "post" /\ op \in {"getAll", "getByUserId"} -> IF ok THEN 200 ELSE 500
         [] svc = "post" /\ op = "getById" ->
              IF ok THEN 200 ELSE IF is("PostNotFoundError") THEN 404 ELSE 500
         [] svc = "post" /\ op = "create" ->
              IF ok THEN 201 ELSE IF is("ValidationError") THEN 400
              ELSE IF is("UserNotFoundError") THEN 404 ELSE 500
         [] svc = "post" /\ op = "update" ->
              IF ok THEN 200 ELSE IF is("PostNotFoundError") THEN 404
              ELSE IF is("ValidationError") THEN 400 ELSE 500
         [] svc = "post" /\ op = "delete" ->
              IF ok THEN 200 ELSE IF is("PostNotFoundError") THEN 404 ELSE 500
         [] OTHER -> 500

\* --------------------------------------------------------------- scopes
\* The scopes that own a client: two Runtimes built from the same layers,
\* each in the scope of its own Effect.scoped, and the migration runner.
RuntimeScopes == {"runtime1", "runtime2"}
Scopes == RuntimeScopes \cup {"migration"}
MaxClients == Cardinality(Scopes)

NoScope == [state |-> "new", handle |-> 0, queries |-> 0, answer |-> "none"]

\* postgres(connectionString, options): every call makes a new client object
\* (the first one not made yet).
postgres(cs) ==
    CHOOSE i \in DOMAIN cs :
        cs[i] = "none" /\ \A j \in DOMAIN cs : cs[j] = "none" => i <= j

\* A client kept in the module and handed to every caller.
createPostgresClientShared(cs) == 1

createPostgresClient(cs) == postgres(cs)

ScopesInit ==
    /\ scopes = [s \in Scopes |-> NoScope]
    /\ clients = [i \in 1..MaxClients |-> "none"]

\* The build of a Runtime instantiates DatabaseServiceLive in the scope of
\* that build: a build has its own memo of layers, so each build runs the
\* layer's effect.
ScopeAcquire(s) ==
    LET client == createPostgresClient(clients)
    IN /\ scopes[s].state = "new"
       /\ clients' = [clients EXCEPT ![client] = "open"]
       /\ scopes' = [scopes EXCEPT ![s] = [NoScope EXCEPT !.state = "open",
                                                           !.handle = client]]
       /\ UNCHANGED <<buildVars, storeVars, progVars>>

\* The scope of a Runtime closes: its finalizer calls client.end().
ScopeRelease(s) ==
    /\ scopes[s].state = "open"
    /\ clients' = [clients EXCEPT ![scopes[s].handle] = "ended"]
    /\ scopes' = [scopes EXCEPT ![s].state = "closed"]
    /\ UNCHANGED <<buildVars, storeVars, progVars>>

\* A Program of the Runtime issues a query on the Runtime's client.
ScopeQuery(s) ==
    /\ scopes[s].state \in {"open", "closed"}
    /\ scopes[s].queries < MaxQueries
    /\ scopes' = [scopes EXCEPT
                    ![s].queries = @ + 1,
                    ![s].answer = IF clients[scopes[s].handle] = "open"
                                  THEN "rows" ELSE "rejected"]
    /\ UNCHANGED <<clients, buildVars, storeVars, progVars>>

\* main() of the migration runner: const client = postgres(..., { max: 1 })
MigrateStart ==
    LET client == postgres(clients)
    IN /\ scopes["migration"].state = "new"
       /\ clients' = [clients EXCEPT ![client] = "open"]
       /\ scopes' = [scopes EXCEPT !["migration"] =
                         [NoScope EXCEPT !.state = "open", !.handle = client]]
       /\ UNCHANGED <<buildVars, storeVars, progVars>>

\* await migrate(db, ...): succeeds, or throws when the database cannot be
\* reached or the client was ended.
MigrateRun(reached) ==
    LET ok == reached /\ clients[scopes["migration"].handle] = "open"
    IN /\ scopes["migration"].state = "open"
       /\ scopes["migration"].queries = 0
       /\ scopes' = [scopes EXCEPT
                       !["migration"].queries = 1,
                       !["migration"].answer = IF ok THEN "rows" ELSE "rejected"]
       /\ UNCHANGED <<clients, buildVars, storeVars, progVars>>

\* finally { await client.end() } after a successful migration
MigrateFinally ==
    /\ scopes["migration"].state = "open"
    /\ scopes["migration"].answer = "rows"
    /\ clients' = [clients EXCEPT ![scopes["migration"].handle] = "ended"]
    /\ scopes' = [scopes EXCEPT !["migration"].state = "closed"]
    /\ UNCHANGED <<buildVars, storeVars, progVars>>

\* catch (error) { ...; process.exit(1) }: the process of the runner ends
\* inside the catch block, before the finally block is reached.
MigrateExit ==
    /\ scopes["migration"].state = "open"
    /\ scopes["migration"].answer = "rejected"
    /\ scopes' = [scopes EXCEPT !["migration"].state = "exited"]
    /\ UNCHANGED <<clients, buildVars, storeVars, progVars>>

ProgInit ==
    /\ prog = [p \in Procs |-> Idle]
    /\ result = [p \in Procs |-> NoResult]
    /\ last = NoLast

RunNext ==
    \/ \E p \in Procs : \E call \in UserCalls : RunUserMem(p, call)
    \/ \E p \in Procs : \E call \in TodoCalls : RunTodo(p, call)
    \/ \E p \in Procs : \E call \in UserCalls : RunUserDb(p, call)
    \/ \E p \in Procs : \E call \in PostCalls : RunPost(p, call)
    \/ \E p \in Procs : \E reached \in BOOLEAN : StorageCall(p, reached)

\* ---------------------------------------------------------------- stores
\* Rows the tables can hold when a Program starts.
UserRow(i, u) ==
    [id |-> i, username |-> S(u), email |-> S("e"), displayName |-> S("d"), bio |-> Null]
PostRow(i, u) == [id |-> i, userId |-> u, content |-> S("x")]

DbStores ==
    {Db({}, 0, {}, 0),
     Db({UserRow(1, "a")}, 1, {}, 0),
     Db({UserRow(1, "a")}, 1, {PostRow(1, 1)}, 1),
     Db({UserRow(1, "a"), UserRow(2, "b")}, 2, {PostRow(1, 1)}, 1)}

MemStores ==
    {[users |-> {}, idCounter |-> 1],
     [users |-> {ToUser(UserRow(1, "a"))}, idCounter |-> 2],
     [users |-> {ToUser(UserRow(2, "b"))}, idCounter |-> 3]}

TodoStores ==
    {[todos |-> {}, idCounter |-> 1],
     [todos |-> {[id |-> S("1"), title |-> S("t"), completed |-> False]}, idCounter |-> 2]}

StoreInit(db, mem, td) ==
    /\ dbUsers = db.dbUsers
    /\ usersSeq = db.usersSeq
    /\ dbPosts = db.dbPosts
    /\ postsSeq = db.postsSeq
    /\ users = mem.users
    /\ idCounter = mem.idCounter
    /\ todos = td.todos
    /\ todoCounter = td.idCounter

EmptyMem == [users |-> {}, idCounter |-> 1]
EmptyTodos == [todos |-> {}, idCounter |-> 1]

\* ---------------------------------------------------------- compositions
Chain(ls, keep) == [layers |-> ls, cuts |-> 1..(Len(ls) - 1), keep |-> keep]

\* Layer.provideMerge(PostServiceLive, Layer.provideMerge(UserServiceLive,
\* DatabaseServiceLive)): every dependency is provided to the layer that asks.
WiredComposition ==
    Chain(<<"DatabaseServiceLive", "UserServiceLive", "PostServiceLive">>, TRUE)
\* The same with the in-memory UserService of index.ts
MixedComposition ==
    Chain(<<"DatabaseServiceLive", "UserServiceLiveLayer", "PostServiceLive">>, TRUE)
\* Layer.provide(UserServiceLive, DatabaseServiceLive)
ProvidedComposition == Chain(<<"DatabaseServiceLive", "UserServiceLive">>, FALSE)
MemComposition == Chain(<<"UserServiceLiveLayer">>, FALSE)
TodoComposition == Chain(<<"TodoServiceLiveLayer">>, FALSE)

RuntimeCompositions ==
    {IndexComposition, DocComposition, WiredComposition, MixedComposition,
     ProvidedComposition, MemComposition, TodoComposition}

RECURSIVE CtxAfter(_, _)
\* The context after the first k stages of c are built.
CtxAfter(c, k) == IF k = 0 THEN NoCtx ELSE ProvideOutput(c, k, CtxAfter(c, k - 1))

\* ------------------------------------------------------- specifications
\* SpecBuild: Runtime construction alone, over every composition.
InitBuild ==
    /\ \E c \in AllCompositions : BuildInit(c)
    /\ StoreInit(Db({}, 0, {}, 0), EmptyMem, EmptyTodos)
    /\ ProgInit
    /\ ScopesInit

NextBuild ==
    \/ \E i \in 1..MaxLayers : BuildLayer(i)
    \/ ScopeClose

SpecBuild == InitBuild /\ [][NextBuild]_vars

\* Spec: the process of index.ts.  The runtime is built (the in-memory maps
\* are new, the database holds what earlier processes left), the scope of
\* Effect.scoped is closed, and the routes run their Programs.
Init ==
    /\ \E c \in RuntimeCompositions : BuildInit(c)
    /\ \E db \in DbStores : StoreInit(db, EmptyMem, EmptyTodos)
    /\ ProgInit
    /\ ScopesInit

Next ==
    \/ \E i \in 1..MaxLayers : BuildLayer(i)
    \/ ScopeClose
    \/ RunNext

Spec == Init /\ [][Next]_vars

\* SpecLive: the services of a runtime whose scope is held open while the
\* Programs run (as Effect.provide(layer) holds it around a Program), so the
\* handle is live; the stores hold what earlier Programs left.
LiveCompositions ==
    {WiredComposition, MixedComposition, MemComposition, TodoComposition}

LiveInit(c) ==
    LET ls == Range(c.layers)
    IN /\ composition = c
       /\ done = DOMAIN c.layers
       /\ ctxIn = CtxAfter(c, NumStages(c))
       /\ memo = ls
       /\ instantiated = [t \in Tokens |-> Cardinality({n \in ls : LayerDef(n).provides = t})]
       /\ buildState = "built"
       /\ buildError = "none"
       /\ scope = "open"
       /\ finalizers = Cardinality({n \in ls : LayerDef(n).scoped})
       /\ pool = IF \E n \in ls : LayerDef(n).scoped THEN "open" ELSE "none"
       /\ poolsCreated = Cardinality({n \in ls : LayerDef(n).scoped})
       /\ endCalls = 0
       /\ runtime = "ready"
       /\ runtimeCtx = CtxAfter(c, NumStages(c))

InitLive ==
    /\ \E c \in LiveCompositions : LiveInit(c)
    /\ \E db \in DbStores, mem \in MemStores, td \in TodoStores :
          /\ StoreInit(db, mem, td)
          /\ runtimeCtx["DatabaseService"] = "none" => db = Db({}, 0, {}, 0)
          /\ runtimeCtx["UserService"] # "UserServiceLiveLayer" => mem = EmptyMem
          /\ runtimeCtx["TodoService"] = "none" => td = EmptyTodos
    /\ ProgInit
    /\ ScopesInit

SpecLive == InitLive /\ [][RunNext]_vars

\* SpecScopes: the scopes that own a client, side by side: the two Runtimes
\* acquire, query and release their DatabaseService, the migration runner
\* runs main().
InitScopes ==
    /\ BuildInit(WiredComposition)
    /\ StoreInit(Db({}, 0, {}, 0), EmptyMem, EmptyTodos)
    /\ ProgInit
    /\ ScopesInit

NextScopes ==
    \/ \E s \in RuntimeScopes : ScopeAcquire(s)
    \/ \E s \in RuntimeScopes : ScopeRelease(s)
    \/ \E s \in RuntimeScopes : ScopeQuery(s)
    \/ MigrateStart
    \/ \E reached \in BOOLEAN : MigrateRun(reached)
    \/ MigrateFinally
    \/ MigrateExit

SpecScopes == InitScopes /\ [][NextScopes]_vars

\* ------------------------------------------------------ the layer graph
\* The dependency graph of a composition, keyed by token: t depends on r when
\* a layer of the composition provides t and requires r.
Provided(c) == {LayerDef(n).provides : n \in Range(c.layers)}
Required(c) == UNION {Range(LayerDef(n).requires) : n \in Range(c.layers)}
DependsOn(c) ==
    UNION {{<<LayerDef(n).provides, r>> : r \in Range(LayerDef(n).requires)} :
            n \in Range(c.layers)}

RECURSIVE Closure(_, _)
Closure(E, n) ==
    IF n = 0 THEN E
    ELSE LET C == Closure(E, n - 1)
         IN C \cup {<<e[1][1], e[2][2]>> : e \in {f \in C \X C : f[1][2] = f[2][1]}}

HasCycle(c) == \E t \in Tokens : <<t, t>> \in Closure(DependsOn(c), Cardinality(Tokens))
AllProvided(c) == Required(c) \subseteq Provided(c)
DuplicateToken(c) ==
    \E m, n \in Range(c.layers) : m # n /\ LayerDef(m).provides = LayerDef(n).provides

StorageSteps == {"read", "check", "write"}

\* ----------------------------------------------------------- properties
\* C1: a scope that acquired the database handle runs the finalizer calling
\* client.end() exactly once when it ends, whether the build succeeded or
\* died and whatever the Programs run afterwards return: never zero times
\* once the scope is closed, never twice, and not at all while it is open.
C1_ReleaseExactlyOnce ==
    /\ poolsCreated <= 1
    /\ endCalls = IF scope = "closed" THEN poolsCreated ELSE 0

\* The scope acquired the handle and ended; a Program that looked the handle
\* up has failed validation before any storage call.
C1_ReleasedOnceAfterFailedValidation ==
    /\ scope = "closed"
    /\ poolsCreated = 1
    /\ endCalls = 1
    /\ runtimeCtx["DatabaseService"] # "none"
    /\ last.exit.kind = "ValidationError"
    /\ Len(last.trace) = 1

\* C2: the handle stays live while the Runtime executes Programs: no step of
\* a Program issues a storage call on a client that was already ended.
C2_NoStorageCallAfterRelease ==
    /\ \A p \in Procs : \A i \in DOMAIN prog[p].trace :
          prog[p].trace[i].step \in StorageSteps => prog[p].trace[i].pool # "ended"
    /\ \A i \in DOMAIN last.trace :
          last.trace[i].step \in StorageSteps => last.trace[i].pool # "ended"

\* C3: two Programs that call UserService.create with the same valid
\* username, free when the first of them started, end one with Success and
\* the other with Failure(UserAlreadyExistsError{username}), under every
\* interleaving in which the database answered their calls.
C3_Created(p) ==
    /\ prog[p].pc = "done"
    /\ prog[p].svc = "user"
    /\ prog[p].op = "create"
    /\ ValidateCreateUser(prog[p].input).tag = "none"
    /\ ~(result[p].kind = "DatabaseError" /\ result[p].ref = <<"connection">>)

C3_OneSuccessOneAlreadyExists ==
    \A p, q \in Procs :
        (/\ p # q
         /\ C3_Created(p)
         /\ C3_Created(q)
         /\ prog[p].input.username = prog[q].input.username
         /\ prog[p].keyFree \/ prog[q].keyFree)
        => \E w \in {p, q} : \E l \in {p, q} \ {w} :
              /\ result[w].success = "true"
              /\ result[l] = [success |-> "false", kind |-> "UserAlreadyExistsError",
                              ref |-> prog[l].input.username]

\* C4: the steps of a Program run left to right and stop at the first
\* failure: a failed step is the last step, and what runEffect returns is
\* that step's failure, unchanged.  A PostService.create whose author lookup
\* fails with UserNotFoundError issues no insert and returns it.
C4_ShortCircuit ==
    /\ \A i \in DOMAIN last.trace :
          last.trace[i].failed =>
              /\ i = Len(last.trace)
              /\ last.returned.success # "true"
              /\ last.returned.kind = last.trace[i].kind
              /\ last.returned.ref = last.trace[i].ref
    /\ (last.svc = "post" /\ last.op = "create" /\ last.exit.kind = "UserNotFoundError")
          => /\ \A i \in DOMAIN last.trace : last.trace[i].step # "write"
             /\ ~last.wrote
             /\ ~last.seqMoved
             /\ last.returned =
                  [success |-> "false", kind |-> "UserNotFoundError",
                   ref |-> last.input.userId]

\* PostService.create has looked its author up in the database, found none,
\* and ended.
C4_AuthorLookupFailed ==
    /\ last.svc = "post"
    /\ last.op = "create"
    /\ Len(last.trace) = 2
    /\ last.trace[2].step = "check"
    /\ last.trace[2].failed
    /\ last.trace[2].kind = "UserNotFoundError"

CUD == {"create", "update", "delete"}

C6_Message ==
    CASE last.svc = "user" /\ last.op = "create" ->
            IF IsBlankOrMissing(last.input.username) THEN <<"Username is required">>
            ELSE IF IsBlankOrMissing(last.input.email) THEN <<"Email is required">>
            ELSE IF IsBlankOrMissing(last.input.displayName)
            THEN <<"Display name is required">>
            ELSE <<>>
      [] last.svc = "user" /\ last.op = "update" ->
            IF IsGivenBlank(last.input.email) THEN <<"Email cannot be empty">>
            ELSE IF IsGivenBlank(last.input.displayName)
            THEN <<"Display name cannot be empty">>
            ELSE <<>>
      [] last.svc = "post" /\ last.op = "create" ->
            IF IsBlankOrMissing(last.input.content) THEN <<"Post content is required">>
            ELSE IF Len(last.input.content) > MaxContentLen
            THEN <<"Post content must be 280 characters or less">>
            ELSE <<>>
      [] last.svc = "post" /\ last.op = "update" ->
            IF IsGivenBlank(last.input.content) THEN <<"Post content cannot be empty">>
            ELSE IF last.input.content # Undefined
                    /\ Len(last.input.content) > MaxContentLen
            THEN <<"Post content must be 280 characters or less">>
            ELSE <<>>
      [] OTHER -> <<>>

\* The id of an update is one the method validates the input for: a numeric
\* id for the database-backed services, the id of a stored user for the
\* in-memory UserService (which looks the user up first).
C6_IdTaken ==
    \/ last.op = "create"
    \/ last.trace[1].step = "begin" /\ ParseInt(last.id) # NaN
    \/ last.trace[1].step = "mem" /\ \E u \in users : u.id = last.id

\* No storage query was issued and nothing was stored.
C6_StoreUntouched ==
    /\ \A i \in DOMAIN last.trace : last.trace[i].step \notin StorageSteps
    /\ ~last.wrote
    /\ ~last.seqMoved

\* C6 (as amended): an input that fails the validation rules ends the
\* Program before the backing store is touched, with the ValidationError of
\* the first rule it fails (username, email, displayName in that order); an
\* update whose id is not numeric (database-backed) or not stored (in-memory)
\* ends with the NotFound error of its service instead, the store untouched
\* as well.
C6_ValidationBeforeStore ==
    C6_Message # <<>> =>
        /\ C6_StoreUntouched
        /\ IF C6_IdTaken
           THEN last.exit = Failure("ValidationError", C6_Message)
           ELSE last.exit = Failure(IF last.svc = "user" THEN "UserNotFoundError"
                                    ELSE "PostNotFoundError", last.id)

\* C6 (as claimed): every such input ends in Failure(ValidationError).
C6_AlwaysValidationError ==
    C6_Message # <<>> =>
        /\ C6_StoreUntouched
        /\ last.exit = Failure("ValidationError", C6_Message)

\* A UserService.create with a blank username and a blank email has ended
\* with the username's message, before any storage call.
C6_BlankUsernameFirst ==
    /\ last.svc = "user"
    /\ last.op = "create"
    /\ IsBlankOrMissing(last.input.username)
    /\ IsBlankOrMissing(last.input.email)
    /\ last.exit = Failure("ValidationError", <<"Username is required">>)
    /\ last.trace[1].step = "begin"
    /\ Len(last.trace) = 1

\* C7: a storage call that is rejected (the database unreachable, the
\* connection ended, a constraint violated) ends the Program with
\* Failure(DatabaseError), which runEffect returns as a value: the promise
\* of the run does not reject.
C7_StorageFailureIsDatabaseError ==
    \A i \in DOMAIN last.trace :
        last.trace[i].rejected # "none" =>
            /\ i = Len(last.trace)
            /\ last.exit = Failure("DatabaseError", <<last.trace[i].rejected>>)
            /\ last.returned.success = "false"
            /\ last.returned.kind = "DatabaseError"

\* An insert was rejected by a constraint of the database.
C7_ConstraintViolation ==
    /\ last.trace # <<>>
    /\ last.trace[Len(last.trace)].step = "write"
    /\ last.trace[Len(last.trace)].rejected \in {"unique_violation", "foreign_key_violation"}

BuildEnded == buildState # "building"

\* C8: the build of a composition whose dependency graph has a cycle fails
\* with CyclicDependency, and at that moment no service is instantiated and
\* no handle is acquired.
C8_CycleRejected ==
    (HasCycle(composition) /\ BuildEnded) =>
        /\ buildState = "failed"
        /\ buildError = "CyclicDependency"
        /\ \A t \in Tokens : instantiated[t] = 0
        /\ poolsCreated = 0

\* C9: the build of an acyclic composition whose layers' dependencies are
\* all provided by layers of the composition succeeds; afterwards every
\* token the composition provides resolves to exactly one instance, and no
\* Program's lookup of a service fails.
C9_AcyclicResolves ==
    (~HasCycle(composition) /\ AllProvided(composition) /\ BuildEnded) =>
        /\ buildState = "built"
        /\ \A t \in Provided(composition) :
              runtimeCtx[t] # "none" /\ instantiated[t] = 1
        /\ last.exit.kind # "ServiceNotFound"

\* C10: the build of a composition in which two layers provide the same
\* token is rejected.
C10_DuplicateRejected ==
    (DuplicateToken(composition) /\ BuildEnded) => buildState = "failed"

\* The compositions of the two-service graph: the database provided to a
\* merge of a UserService layer and PostServiceLive, in either order.
TwoServiceMerges ==
    {[layers |-> <<"DatabaseServiceLive", a, b>>, cuts |-> {1}, keep |-> k] :
        a \in {"UserServiceLive", "UserServiceLiveLayer", "PostServiceLive"},
        b \in {"UserServiceLive", "UserServiceLiveLayer", "PostServiceLive"},
        k \in BOOLEAN}
    \cap {c \in AllCompositions :
            /\ "PostServiceLive" \in Range(c.layers)
            /\ Cardinality(Range(c.layers)) = 3}

\* C11: a composition with PostService and no UserService fails to build;
\* one that merges a UserService layer and PostServiceLive builds, whichever
\* of the two is merged first, and PostService then finds the UserService.
C11_TwoServiceGraph ==
    BuildEnded =>
        /\ ("PostServiceLive" \in Range(composition.layers)
              /\ "UserService" \notin Provided(composition))
                 => buildState = "failed"
        /\ composition \in TwoServiceMerges
                 => /\ buildState = "built"
                    /\ runtimeCtx["PostService"] = "PostServiceLive"
                    /\ runtimeCtx["UserService"] # "none"

\* The layers are built in dependency order: the database before the
\* database-backed UserService, the database and a UserService before
\* PostService.
BuiltInDependencyOrder ==
    /\ "UserServiceLive" \in memo => "DatabaseServiceLive" \in memo
    /\ "PostServiceLive" \in memo =>
          /\ "DatabaseServiceLive" \in memo
          /\ \E n \in memo : LayerDef(n).provides = "UserService"

\* C12: the layers are instantiated in dependency order, the layers that
\* depend on the database share one handle, and each service is instantiated
\* at most once per Runtime.
C12_DependencyOrderOnce ==
    /\ BuiltInDependencyOrder
    /\ poolsCreated <= 1
    /\ \A t \in Tokens : instantiated[t] <= 1

Ids(es) == {e.id : e \in es}

\* C13: the in-memory id counters only grow; a successful create takes the
\* value of the counter as its id and advances the counter by one, and every
\* id in use is below the counter.  So the ids of successive creates are
\* distinct and increasing and the id of a deleted entity is never taken
\* again, under every interleaving of the invocations.
C13_IdsStrictlyIncreasing ==
    /\ [](/\ \A u \in users : ParseInt(u.id) < idCounter
          /\ \A t \in todos : ParseInt(t.id) < todoCounter)
    /\ [][/\ idCounter' >= idCounter
          /\ todoCounter' >= todoCounter
          /\ \A i \in Ids(users') \ Ids(users) :
                i = NumToString(idCounter) /\ idCounter' = idCounter + 1
          /\ \A i \in Ids(todos') \ Ids(todos) :
                i = NumToString(todoCounter) /\ todoCounter' = todoCounter + 1]_vars

\* A user was deleted, and the create that followed has taken a new id.
C13_CreateAfterDelete ==
    \E p, q \in Procs :
        /\ runtimeCtx["UserService"] = "UserServiceLiveLayer"
        /\ prog[p].pc = "done" /\ prog[p].svc = "user" /\ prog[p].op = "delete"
        /\ result[p].success = "true"
        /\ last.proc = q /\ last.svc = "user" /\ last.op = "create"
        /\ last.exit.tag = "Success"
        /\ last.exit.value.id = NumToString(idCounter - 1)
        /\ ParseInt(prog[p].id) < ParseInt(last.exit.value.id)
        /\ prog[p].id \notin Ids(users)

\* The Program `pr` executed alone on the in-memory state `st`: the state it
\* leaves and what runEffect returns.
Alone(pr, st) ==
    LET uc == UserMem_create(st.users, st.idCounter, pr.input)
        uu == UserMem_update(st.users, pr.id, pr.input)
        ud == UserMem_delete(st.users, pr.id)
        tc == TodoMem_create(st.todos, st.todoCounter, pr.input)
        tu == TodoMem_update(st.todos, pr.id, pr.input)
        td == TodoMem_delete(st.todos, pr.id)
    IN CASE pr.svc = "user" /\ pr.op = "create" ->
              [st EXCEPT !.users = uc.users, !.idCounter = uc.idCounter,
                         !.returned = runEffect(uc.exit)]
         [] pr.svc = "user" /\ pr.op = "update" ->
              [st EXCEPT !.users = uu.users, !.returned = runEffect(uu.exit)]
         [] pr.svc = "user" /\ pr.op = "delete" ->
              [st EXCEPT !.users = ud.users, !.returned = runEffect(ud.exit)]
         [] pr.svc = "user" /\ pr.op = "getById" ->
              [st EXCEPT !.returned = runEffect(UserMem_getById(st.users, pr.id))]
         [] pr.svc = "user" /\ pr.op = "getByUsername" ->
              [st EXCEPT !.returned =
                            runEffect(UserMem_getByUsername(st.users, pr.input.username))]
         [] pr.svc = "todo" /\ pr.op = "create" ->
              [st EXCEPT !.todos = tc.todos, !.todoCounter = tc.idCounter,
                         !.returned = runEffect(tc.exit)]
         [] pr.svc = "todo" /\ pr.op = "update" ->
              [st EXCEPT !.todos = tu.todos, !.returned = runEffect(tu.exit)]
         [] pr.svc = "todo" /\ pr.op = "delete" ->
              [st EXCEPT !.todos = td.todos, !.returned = runEffect(td.exit)]
         [] pr.svc = "todo" /\ pr.op = "getById" ->
              [st EXCEPT !.returned = runEffect(TodoMem_getById(st.todos, pr.id))]
         [] OTHER -> [st EXCEPT !.returned = runEffect(Success(Void))]

\* The Programs of the in-memory services.
OnMaps(pr) ==
    \/ pr.svc = "user" /\ runtimeCtx["UserService"] = "UserServiceLiveLayer"
    \/ pr.svc = "todo"

C16_AcquireSameHandle ==
    /\ [](/\ poolsCreated <= 1
          /\ instantiated["DatabaseService"] = poolsCreated
          /\ \A p \in Procs : prog[p].pc \in StorageSteps =>
                /\ runtimeCtx["DatabaseService"] = "DatabaseServiceLive"
                /\ poolsCreated = 1)
    /\ [][runtime = "ready" =>
             /\ poolsCreated' = poolsCreated
             /\ instantiated' = instantiated
             /\ runtimeCtx' = runtimeCtx]_vars

\* Two Programs of one runtime have taken DatabaseService: one has made its
\* storage calls, the other is waiting on one.
C16_TwoProgramsOnePool ==
    \E p \in Procs :
        /\ poolsCreated = 1
        /\ p # last.proc
        /\ prog[p].pc \in StorageSteps
        /\ \E k \in DOMAIN last.trace : last.trace[k].step \in StorageSteps

\* C17: when the build fails after DatabaseService was instantiated, closing
\* the scope runs the release action exactly once and leaves no pool open;
\* until the scope closes the release action has not run.
C17_ReleasedOnceAfterFailedBuild ==
    (buildState = "failed" /\ instantiated["DatabaseService"] > 0) =>
        /\ poolsCreated = 1
        /\ scope = "open" => endCalls = 0 /\ pool = "open"
        /\ scope = "closed" => endCalls = 1 /\ pool = "ended"

\* DatabaseService was instantiated, the layer of PostService then found no
\* UserService, and the scope has closed.
C17_DependentLayerFailed ==
    /\ buildState = "failed"
    /\ buildError = "UserService"
    /\ instantiated["DatabaseService"] = 1
    /\ instantiated["PostService"] = 0
    /\ scope = "closed"

Owned(s) == scopes[s].handle # 0

\* C18: the scopes that own a client own pairwise distinct clients; the
\* client of a scope is live for as long as the scope is open, and the
\* release of one scope (or the end of the migration runner) leaves the
\* client of every other scope as it was.
C18_ScopesOwnDistinctHandles ==
    /\ [](/\ \A s, t \in Scopes :
                s # t /\ Owned(s) /\ Owned(t) => scopes[s].handle # scopes[t].handle
          /\ \A s \in Scopes :
                scopes[s].state = "open" => clients[scopes[s].handle] = "open")
    /\ [][\A s \in Scopes :
             (scopes[s].state = "open" /\ scopes'[s].state # "open") =>
                 \A t \in Scopes \ {s} :
                     Owned(t) => clients'[scopes[t].handle] = clients[scopes[t].handle]]_vars

\* One Runtime has released its client; the other Runtime, still open, has
\* had a query answered on its own client, and the migration runner holds a
\* third client.
C18_OneReleasedOthersLive ==
    \E s, t \in RuntimeScopes :
        /\ s # t
        /\ scopes[s].state = "closed" /\ clients[scopes[s].handle] = "ended"
        /\ scopes[s].answer = "rejected"
        /\ scopes[t].state = "open" /\ scopes[t].answer = "rows"
        /\ scopes["migration"].state = "open" /\ scopes["migration"].answer = "rows"

\* C19: a Program of UserService or PostService that ends in a Failure ends
\* in a Failure whose kind is in the signature of its operation, and every
\* failed step of a Program has such a kind, for every input and every
\* stored state.
C19_FailureKindDeclared ==
    /\ \A p \in Procs :
          (prog[p].svc \in {"user", "post"} /\ prog[p].pc = "done"
              /\ result[p].success = "false")
          => result[p].kind \in DeclaredErrors(prog[p].svc, prog[p].op)
    /\ (last.svc \in {"user", "post"} /\ last.exit.tag = "Failure")
          => /\ last.exit.kind \in DeclaredErrors(last.svc, last.op)
             /\ last.returned.kind = last.exit.kind

\* PostService.getById has read the table, found no row and failed with
\* PostNotFoundError.
C19_PostNotFoundAfterRead ==
    /\ last.svc = "post" /\ last.op = "getById"
    /\ last.exit.tag = "Failure" /\ last.exit.kind = "PostNotFoundError"
    /\ \E k \in DOMAIN last.trace :
          last.trace[k].step = "read" /\ last.trace[k].rejected = "none"

\* The one table of statuses, keyed on the error kind alone.
StatusOfKind(kind) ==
    CASE kind = "ValidationError" -> 400
      [] kind \in {"UserNotFoundError", "PostNotFoundError"} -> 404
      [] kind = "UserAlreadyExistsError" -> 409
      [] OTHER -> 500

\* C20: whatever runEffect returns to a route of UserService or PostService,
\* the route answers with the status of the one table: 201 for a Success of
\* a POST (create), 200 for any other Success, and for a Failure the status
\* of its kind - 400 ValidationError, 404 UserNotFoundError and
\* PostNotFoundError, 409 UserAlreadyExistsError, 500 for the rest - so no
\* kind gets two statuses on two routes.
C20_StatusByKind ==
    \A p \in Procs :
        (prog[p].pc = "done" /\ prog[p].svc \in {"user", "post"}
            /\ result[p].success \in {"true", "false"})
        => RouteStatus(prog[p].svc, prog[p].op, result[p])
              = IF result[p].success = "true"
                THEN (IF prog[p].op = "create" THEN 201 ELSE 200)
                ELSE StatusOfKind(result[p].kind)

\* PUT /users/:id has answered 400 for a ValidationError and POST /users has
\* answered 409 for a taken username.
C20_Put400Post409 ==
    \E p, q \in Procs :
        /\ prog[p].pc = "done" /\ prog[p].svc = "user" /\ prog[p].op = "update"
        /\ result[p].kind = "ValidationError"
        /\ RouteStatus("user", "update", result[p]) = 400
        /\ prog[q].pc = "done" /\ prog[q].svc = "user" /\ prog[q].op = "create"
        /\ result[q].kind = "UserAlreadyExistsError"
        /\ RouteStatus("user", "create", result[q]) = 409

UniqueUsernames(us) == \A u, v \in us : u.username = v.username => u = v

\* C21 (first part): no two stored users, in the in-memory map or in the
\* users table, have the same username.
C21_NoTwoUsersOneUsername ==
    UniqueUsernames(users) /\ UniqueUsernames(dbUsers)

\* C21: usernames are unique in every reachable state, and a create with
\* valid input that did not store its user (the storage was reachable) has
\* failed with UserAlreadyExistsError carrying the username it asked for.
C21_UniqueAndAlreadyExists ==
    /\ C21_NoTwoUsersOneUsername
    /\ (/\ last.svc = "user" /\ last.op = "create"
        /\ ValidateCreateUser(last.input).tag = "none"
        /\ last.exit.tag # "Success"
        /\ ~(last.exit.kind = "DatabaseError" /\ last.exit.ref = <<"connection">>))
       => last.exit = Failure("UserAlreadyExistsError", last.input.username)

\* Content that the rules for posts allow: not blank, at most 280 characters.
ContentAllowed(c) == ~IsBlankOrMissing(c) /\ Len(c) <= MaxContentLen

\* C22 (the part about validation and the stored posts): create and update
\* reject blank content and content longer than 280 characters with
\* ValidationError, neither rejects content of exactly 280 characters with
\* it, and every stored post has allowed content.
C22_RejectsAndStoresWithinBound ==
    /\ \A r \in dbPosts : ContentAllowed(r.content)
    /\ (last.svc = "post" /\ last.op = "create") =>
          (last.exit.kind = "ValidationError" <=> ~ContentAllowed(last.input.content))
    /\ (last.svc = "post" /\ last.op = "update" /\ ParseInt(last.id) # NaN) =>
          (last.exit.kind = "ValidationError"
             <=> (last.input.content # Undefined /\ ~ContentAllowed(last.input.content)))

\* C22: post content is bounded as above, and an update of a post with an
\* id that parses and with allowed content, or none, is accepted: it ends
\* in Success or in a declared Failure (PostNotFoundError, DatabaseError).
C22_ContentBounded ==
    /\ C22_RejectsAndStoresWithinBound
    /\ (/\ last.svc = "post" /\ last.op = "update" /\ ParseInt(last.id) # NaN
        /\ (last.input.content = Undefined \/ ContentAllowed(last.input.content)))
       => /\ last.exit.tag \in {"Success", "Failure"}
          /\ last.exit.kind \in {"none", "PostNotFoundError", "DatabaseError"}

\* The ids of the users that the UserService of the runtime holds.
StoredUserIds ==
    IF runtimeCtx["UserService"] = "UserServiceLiveLayer"
    THEN Ids(users)
    ELSE {NumToString(r.id) : r \in dbUsers}

\* C23: a post is created only for a stored user (a create whose userId
\* names no stored user fails with UserNotFoundError and stores nothing),
\* and a user that was deleted has left no post behind.
C23_PostsHaveAuthors ==
    /\ (last.svc = "post" /\ last.op = "create" /\ last.exit.tag = "Success")
          => last.input.userId \in StoredUserIds
    /\ (/\ last.svc = "post" /\ last.op = "create"
        /\ ValidateCreatePost(last.input).tag = "none"
        /\ last.input.userId \notin StoredUserIds
        /\ last.exit.tag # "Success"
        /\ ~(last.exit.kind = "DatabaseError" /\ last.exit.ref = <<"connection">>))
          => last.exit = Failure("UserNotFoundError", last.input.userId) /\ ~last.wrote
    /\ (last.svc = "user" /\ last.op = "delete" /\ last.exit.tag = "Success")
          => \A r \in dbPosts : r.userId # ParseInt(last.id)

\* C24: service methods never throw: every update and every delete of a
\* user or a post, whatever runs concurrently with it, returns to its route
\* with Success or with a declared Failure; runEffect never throws for it.
C24_UpdateNeverThrows ==
    \A p \in Procs :
        (prog[p].pc = "done" /\ prog[p].svc \in {"user", "post"}
            /\ prog[p].op \in {"update", "delete"})
        => /\ result[p].success \in {"true", "false"}
           /\ result[p].success = "false"
                 => result[p].kind \in DeclaredErrors(prog[p].svc, prog[p].op)

\* ---------------------------------------------------------- SpecReplace
\* A method of the database-backed UserService run to its end, every storage
\* call answered: what a call of a sequential series does.
UserDb_Alone(call, db) ==
    LET begin == UserDb_Begin(call.op, call.id, call.input)
        s1 == TryPromise(TRUE, db, UserDb_Query(call.op, UserDb_FirstCall(call.op),
                                                call.id, call.input, db))
        s2 == TryPromise(TRUE, s1.db, UserDb_Query(call.op, s1.next, call.id,
                                                   call.input, s1.db))
    IN IF begin.tag # "none" THEN Fin(db, begin)
       ELSE IF s1.next = "done" THEN s1
       ELSE s2

\* SpecReplace: one series of calls given, call by call, to the in-memory
\* UserService (invocation 1, on users and idCounter) and to the
\* database-backed UserService (the other invocation, on the users table),
\* both started empty.
ReplaceCall(call) ==
    LET pr == Called("user", call, users)
        m == Alone(pr, [users |-> users, idCounter |-> idCounter, todos |-> todos,
                        todoCounter |-> todoCounter, returned |-> NoResult])
        d == UserDb_Alone(call, Db(dbUsers, usersSeq, dbPosts, postsSeq))
    IN /\ call.op = "create" => idCounter <= MaxSeq /\ usersSeq < MaxSeq
       /\ users' = m.users
       /\ idCounter' = m.idCounter
       /\ dbUsers' = d.db.dbUsers
       /\ usersSeq' = d.db.usersSeq
       /\ prog' = [p \in Procs |-> [pr EXCEPT !.pc = "done"]]
       /\ result' = [p \in Procs |-> IF p = 1 THEN m.returned ELSE runEffect(d.exit)]
       /\ last' = [NoLast EXCEPT !.svc = "user", !.op = call.op, !.id = call.id,
                                 !.input = call.input, !.exit = d.exit,
                                 !.returned = runEffect(d.exit)]
       /\ UNCHANGED <<buildVars, scopeVars, todos, todoCounter, dbPosts, postsSeq>>

InitReplace ==
    /\ LiveInit(WiredComposition)
    /\ StoreInit(Db({}, 0, {}, 0), EmptyMem, EmptyTodos)
    /\ ProgInit
    /\ ScopesInit

NextReplace == \E call \in UserCalls : ReplaceCall(call)

SpecReplace == InitReplace /\ [][NextReplace]_vars

\* C25: given the same series of calls from the same empty store, the
\* in-memory and the database-backed UserService return the same kind of
\* outcome for every call: both Success, or both the same error kind.
C25_SameOutcomeKind ==
    /\ result[1].success = result[2].success
    /\ result[1].kind = result[2].kind

\* C26: getById of UserService and of PostService ends in Success only with
\* the entity whose id is the requested string, and an id that is not the
\* id of a stored entity ends in the NotFound error of the service.
C26_GetByIdExactId ==
    (last.svc \in {"user", "post"} /\ last.op = "getById") =>
        /\ last.exit.tag = "Success" => last.exit.value.id = last.id
        /\ (/\ last.id \notin (IF last.svc = "post"
                               THEN {NumToString(r.id) : r \in dbPosts}
                               ELSE StoredUserIds)
            /\ ~(last.exit.kind = "DatabaseError" /\ last.exit.ref = <<"connection">>))
           => last.exit = Failure(IF last.svc = "post" THEN "PostNotFoundError"
                                  ELSE "UserNotFoundError", last.id)

\* The users that the UserService of the runtime holds, given both stores.
StoredUsers(mem, rows) ==
    IF runtimeCtx["UserService"] = "UserServiceLiveLayer" THEN mem
    ELSE {ToUser(r) : r \in rows}

\* The Program of p ends in this step with Success.
Succeeds(p, svc, op) ==
    /\ prog[p].pc # "done" /\ prog'[p].pc = "done"
    /\ prog'[p].svc = svc /\ prog'[p].op = op
    /\ result'[p].success = "true"

NotFoundOf(svc) ==
    CASE svc = "user" -> "UserNotFoundError"
      [] svc = "post" -> "PostNotFoundError"
      [] OTHER -> "TodoNotFoundError"

\* The ids of the entities that the service `svc` of the runtime holds.
StoredIds(svc) ==
    CASE svc = "user" -> StoredUserIds
      [] svc = "post" -> {NumToString(r.id) : r \in dbPosts}
      [] OTHER -> Ids(todos)

\* C28 (the in-memory services): a successful delete removes the addressed
\* entity and nothing else, and a delete of an id that is not stored fails
\* with NotFound and changes nothing.
C28_InMemoryDelete ==
    [][\A p \in Procs :
          (/\ prog[p].pc # "done" /\ prog'[p].pc = "done"
           /\ prog'[p].op = "delete" /\ OnMaps(prog'[p])) =>
             LET id == prog'[p].id
                 gone(before, after) ==
                    IF id \in Ids(before)
                    THEN /\ result'[p].success = "true"
                         /\ after = {e \in before : e.id # id}
                    ELSE /\ result'[p].success = "false"
                         /\ result'[p].ref = id
                         /\ after = before
             IN IF prog'[p].svc = "user"
                THEN gone(users, users') /\ result'[p].kind \in {"none", "UserNotFoundError"}
                ELSE gone(todos, todos') /\ result'[p].kind \in {"none", "TodoNotFoundError"}]_vars

\* C28: a delete of a user, a post or a todo whose storage could be reached
\* ends in Success, after which the id is not stored any more, or in the
\* NotFound failure of its service carrying the id, having changed nothing.
C28_DeleteOnceThenNotFound ==
    (/\ last.op = "delete"
     /\ ~(last.exit.kind = "DatabaseError" /\ last.exit.ref = <<"connection">>))
    => /\ last.exit.tag \in {"Success", "Failure"}
       /\ last.exit.tag = "Success" => last.id \notin StoredIds(last.svc)
       /\ last.exit.tag = "Failure" =>
             last.exit = Failure(NotFoundOf(last.svc), last.id) /\ ~last.wrote

\* What the reads of the UserService of the runtime return on the stores as
\* they are (every storage call answered).
ReadUser(call) ==
    IF runtimeCtx["UserService"] = "UserServiceLiveLayer"
    THEN (IF call.op = "getById" THEN UserMem_getById(users, call.id)
          ELSE UserMem_getByUsername(users, call.input.username))
    ELSE UserDb_Alone(call, Db(dbUsers, usersSeq, dbPosts, postsSeq)).exit

ReadById(id) == ReadUser([op |-> "getById", id |-> id, input |-> NoInput])
ReadByUsername(n) ==
    ReadUser([op |-> "getByUsername", id |-> <<>>,
              input |-> [NoInput EXCEPT !.username = n]])

\* C29: once create has returned Success(u), getById(u.id) and
\* getByUsername(input.username) return Success(u) and the users getAll
\* returns hold exactly one user with u's id or username, which is u; and
\* for as long as a user is stored, both reads return it as it is stored.
C29_CreateReadRoundTrip ==
    /\ (last.svc = "user" /\ last.op = "create" /\ last.exit.tag = "Success") =>
          LET u == last.exit.value
          IN /\ ReadById(u.id) = Success(u)
             /\ ReadByUsername(last.input.username) = Success(u)
             /\ {v \in StoredUsers(users, dbUsers) :
                    v.id = u.id \/ v.username = last.input.username} = {u}
    /\ \A u \in StoredUsers(users, dbUsers) :
          /\ ReadById(u.id) = Success(u)
          /\ ReadByUsername(u.username) = Success(u)

\* The database-backed create has inserted its row and returned the user
\* while another user was stored.
C29_CreatedInTable ==
    /\ runtimeCtx["UserService"] = "UserServiceLive"
    /\ last.svc = "user" /\ last.op = "create" /\ last.exit.tag = "Success"
    /\ \E k \in DOMAIN last.trace : last.trace[k].step = "write"
    /\ last.exit.value.id = S("2")
    /\ Cardinality(dbUsers) = 2

\* ---------------------------------------------------------- SpecLiveFair
\* SpecLive with the scheduling the claim assumes: a storage call that a
\* Program waits on is eventually answered or fails, for every Program.
\* A Program that is never submitted stays idle.
SpecLiveFair ==
    /\ SpecLive
    /\ \A p \in Procs : WF_vars(\E reached \in BOOLEAN : StorageCall(p, reached))

\* C30 (termination): every Program submitted through runEffect eventually
\* ends, whatever the other Programs do.
C30_EveryRunEnds ==
    \A p \in Procs : (prog[p].pc # "idle") ~> (prog[p].pc = "done")

\* C30: every Program submitted through runEffect eventually ends and
\* runEffect returns Success or Failure to its route.
C30_EveryRunReturnsOutcome ==
    \A p \in Procs :
        (prog[p].pc # "idle")
            ~> (prog[p].pc = "done" /\ result[p].success \in {"true", "false"})
====
